---------------------------- MODULE Spec2Model ----------------------------
(* A state-machine model of strprofiler.py: STR profile ingestion           *)
(* (str_ingress, _clean_element), pairwise scoring (score_query), the       *)
(* mixing heuristic (mixing_check), the summary (make_summary) and the      *)
(* all-pairs comparison loop of the command (strprofiler).                  *)
(*                                                                          *)
(* Text that the code inspects character by character (allele strings) is   *)
(* a sequence of one-character strings; text that the code only compares    *)
(* or concatenates (sample names, marker names) is a TLA+ string.           *)
EXTENDS Integers, Sequences, FiniteSets, TLC

VARIABLES
    \* ---- canonicalisation of one marker value (SpecClean)
    c_layout,      \* "wide" | "long"
    c_cells,       \* the raw cells of one marker: the Allele columns of a wide
                   \* row, or the single cell of a long row
    c_out,         \* the canonical allele string of the marker
    c_pc,          \* "raw" | "done"
    \* ---- score_query on a pair of records (SpecScore)
    sq_a, sq_b,    \* two sample records (marker -> allele string)
    sq_use_amel,   \* use_amel
    sq_amel_col,   \* amel_col
    sq_ab, sq_ba,  \* score_query(a, b), score_query(b, a), or NotScored
    sq_aa,         \* score_query(a, copy of a), or NotScored
    \* ---- str_ingress (SpecIngress)
    paths,         \* the input tables, in order
    sample_map,    \* the rename table: a sequence of <<old, new>> (empty
                   \* when no table is given)
    penta_fix,     \* penta_fix
    path_i,        \* index of the next table to read
    samps_dicts,   \* the records collected so far
    map_i,         \* index of the next row of the rename table
    allele_df,     \* the table of records, in row order
    ing_pc,        \* "read" | "rename" | "index" | "returned" | "raised"
    \* ---- the command's comparison loop (Spec)
    samps,         \* the cohort: a sequence of records with distinct Sample keys
    score_amel,    \* score_amel
    s_i,           \* index of the query sample in samps
    sa_i,          \* index of the next reference sample in samps
    samp_comps,    \* rows collected for the current query sample
    full_samp_out, \* the ranked table of the current query sample
    written,       \* the samples whose comparison table has been written
    tables,        \* sample -> the ranked table written for it
    summaries,     \* the summary rows collected so far
    summary_written, \* whether the summary table has been written
    pc,            \* "mix" | "score" | "sort" | "write" | "summary" | "final"
                   \* | "done" | "aborted"
    err            \* the exception that ended the run, or NoValue

vars == << c_layout, c_cells, c_out, c_pc,
           sq_a, sq_b, sq_use_amel, sq_amel_col, sq_ab, sq_ba, sq_aa,
           paths, sample_map, penta_fix, path_i, samps_dicts, map_i,
           allele_df, ing_pc,
           samps, score_amel, s_i, sa_i, samp_comps, full_samp_out, written,
           tables, summaries, summary_written, pc, err >>

cleanVars == << c_layout, c_cells, c_out, c_pc >>
scoreVars == << sq_a, sq_b, sq_use_amel, sq_amel_col, sq_ab, sq_ba, sq_aa >>
ingressVars == << paths, sample_map, penta_fix, path_i, samps_dicts, map_i,
                  allele_df, ing_pc >>
runVars == << samps, score_amel, s_i, sa_i, samp_comps, full_samp_out,
              written, tables, summaries, summary_written, pc, err >>

NoValue == "<none>"

\* ------------------------------------------------------------------------
\* Bounds of the model.
MaxCells == 2        \* allele cells (wide) / comma-separated labels (long)
MaxRows == 2         \* rows of an input table
MaxTables == 2       \* input tables of one run
MaxMapRows == 2      \* rows of the rename table
MaxCols == 2         \* marker columns of a long table with Penta markers
MaxSamples == 3      \* samples of a cohort in the comparison loop
MaxAlleles == 2      \* alleles of one marker of a record that is scored

\* ------------------------------------------------------------------------
\* Character strings.

\* The characters of the model's texts, in code-point order.
Chars == << " ", ",", ".", "0", "1", "2", "3", "9", "a", "n" >>

CharRank(c) == CHOOSE i \in 1..Len(Chars) : Chars[i] = c

Range(s) == { s[i] : i \in 1..Len(s) }

\* str < str of Python: lexicographic by code point, a proper prefix first.
RECURSIVE StrLess(_, _)
StrLess(a, b) ==
    IF b = << >> THEN FALSE
    ELSE IF a = << >> THEN TRUE
    ELSE IF Head(a) = Head(b) THEN StrLess(Tail(a), Tail(b))
    ELSE CharRank(Head(a)) < CharRank(Head(b))

\* str.rstrip(chars): drops every trailing character that is in chars.
RECURSIVE RStripChars(_, _)
RStripChars(s, chars) ==
    IF s # << >> /\ s[Len(s)] \in chars
    THEN RStripChars(SubSeq(s, 1, Len(s) - 1), chars)
    ELSE s

\* str.lstrip(chars).
RECURSIVE LStripChars(_, _)
LStripChars(s, chars) ==
    IF s # << >> /\ Head(s) \in chars THEN LStripChars(Tail(s), chars) ELSE s

\* str.strip(chars).
StripChars(s, chars) == LStripChars(RStripChars(s, chars), chars)

\* str.strip(): surrounding whitespace.
Strip(s) == StripChars(s, {" "})

\* str.split(","): the fields between commas; "" splits into [""].
RECURSIVE SplitFrom(_, _)
SplitFrom(s, cur) ==
    IF s = << >> THEN << cur >>
    ELSE IF Head(s) = "," THEN << cur >> \o SplitFrom(Tail(s), << >>)
    ELSE SplitFrom(Tail(s), Append(cur, Head(s)))

Split(s) == SplitFrom(s, << >>)

\* ",".join(list).
RECURSIVE Join(_)
Join(l) ==
    IF l = << >> THEN << >>
    ELSE IF Len(l) = 1 THEN l[1]
    ELSE l[1] \o << "," >> \o Join(Tail(l))

\* list(OrderedDict.fromkeys(list)): first occurrences, in order.
RECURSIVE FromKeys(_)
FromKeys(l) ==
    IF l = << >> THEN << >>
    ELSE LET init == FromKeys(SubSeq(l, 1, Len(l) - 1))
             x == l[Len(l)]
         IN  IF x \in Range(init) THEN init ELSE Append(init, x)

\* sorted(set): the elements of a set of strings in ascending order.
RECURSIVE SortedStrings(_)
SortedStrings(S) ==
    IF S = {} THEN << >>
    ELSE LET m == CHOOSE x \in S : \A y \in S \ {x} : StrLess(x, y)
         IN  << m >> \o SortedStrings(S \ {m})

\* The ".0" strip of the allele labels: str.rstrip(".0").
StripArtifact(s) == RStripChars(s, {".", "0"})

\* str(nan), the text of an empty cell of a wide table.
NanStr == << "n", "a", "n" >>

\* _clean_element(x): the canonical allele string of a long-layout cell.
CleanElement(x) ==
    LET fields == Split(x)
        elements == { StripArtifact(Strip(fields[i])) : i \in 1..Len(fields) }
    IN  Join(SortedStrings(elements))

\* Keeps the members of a sequence that satisfy a test.
RECURSIVE DropNan(_)
DropNan(l) ==
    IF l = << >> THEN << >>
    ELSE IF Head(l) = NanStr THEN DropNan(Tail(l))
    ELSE << Head(l) >> \o DropNan(Tail(l))

\* The "Alleles" column of one wide row: the non-empty Allele cells, each
\* stripped, joined by commas, surrounding commas removed.
WideAlleles(cells) ==
    LET kept == DropNan(cells)
        cleaned == [ i \in 1..Len(kept) |-> StripArtifact(Strip(kept[i])) ]
    IN  StripChars(Join(cleaned), {","})

\* "Remove duplicate alleles" of the wide layout: insertion-ordered dedup.
WideDedup(v) == Join(FromKeys(Split(v)))

\* The long layout replaces an empty cell by "" and keeps the text of others.
LongCell(cell) == IF cell = NanStr THEN << >> ELSE Strip(cell)


\* Line 45 of str_ingress: every text cell is stripped when a table is read.
StripCell(cell) == Strip(cell)

\* The canonical allele string of one marker that has one wide row.
WideMarkerValue(cells) ==
    WideDedup(WideAlleles([ i \in 1..Len(cells) |-> StripCell(cells[i]) ]))

\* The canonical allele string of one long-layout cell.
LongMarkerValue(cell) == CleanElement(LongCell(cell))

\* ------------------------------------------------------------------------
\* Scores. A float score is the exact fraction n/d it rounds (d > 0); the
\* operands are small integers, so distinct fractions are distinct floats and
\* the order of the fractions is the order of the floats. nan has d = 0.

RECURSIVE GCD(_, _)
GCD(a, b) == IF b = 0 THEN a ELSE GCD(b, a % b)

Frac(a, b) == LET g == GCD(a, b) IN [ n |-> a \div g, d |-> b \div g ]

Nan == [ n |-> 0, d |-> 0 ]

IsNan(x) == x.d = 0

\* x >= y on floats: false when either side is nan.
Geq(x, y) == ~IsNan(x) /\ ~IsNan(y) /\ x.n * y.d >= y.n * x.d

\* x > y on floats.
Gt(x, y) == ~IsNan(x) /\ ~IsNan(y) /\ x.n * y.d > y.n * x.d

Hundred == Frac(100, 1)

RECURSIVE SumOver(_, _)
SumOver(S, f) ==
    IF S = {} THEN 0
    ELSE LET x == CHOOSE y \in S : TRUE IN f[x] + SumOver(S \ {x}, f)

\* The value of score_query when one of its divisions raises.
ZeroDivision == [ status |-> "ZeroDivisionError" ]

NotScored == [ status |-> "none" ]

\* Lines 154-155: the markers with a non-empty value, each with its set of
\* alleles.
AlleleSets(rec) ==
    [ k \in { m \in DOMAIN rec : rec[m] # << >> } |-> Range(Split(rec[k])) ]

\* Lines 157-163: the markers scored for a pair.
SharedMarkers(q, r, use_amel, amel_col) ==
    LET both == DOMAIN q \cap DOMAIN r
    IN  IF use_amel = FALSE THEN both \ {amel_col} ELSE both

\* A variant of MastersQ that divides by the reference's allele count.
MastersQByReference(n_shared, n_q, n_r) == Frac(100 * n_shared, n_r)

\* 100 * (n_shared / n_q), the Masters score against the query.
MastersQ(n_shared, n_q, n_r) == Frac(100 * n_shared, n_q)

\* 100 * (n_shared / n_r), the Masters score against the reference.
MastersR(n_shared, n_q, n_r) == Frac(100 * n_shared, n_r)

\* A variant of Tanabe that counts the shared alleles once.
TanabeSingleCount(n_shared, n_q, n_r) == Frac(100 * n_shared, n_q + n_r)

\* 100 * ((2 * n_shared) / (n_q + n_r)), the Tanabe score.
Tanabe(n_shared, n_q, n_r) == Frac(200 * n_shared, n_q + n_r)

\* score_query(query, reference, use_amel, amel_col).
ScoreQuery(query, reference, use_amel, amel_col) ==
    LET q == AlleleSets(query)
        r == AlleleSets(reference)
        markers == SharedMarkers(q, r, use_amel, amel_col)
        n_r_alleles == SumOver(markers, [ m \in markers |-> Cardinality(r[m]) ])
        n_q_alleles == SumOver(markers, [ m \in markers |-> Cardinality(q[m]) ])
        n_shared_alleles ==
            SumOver(markers, [ m \in markers |-> Cardinality(r[m] \cap q[m]) ])
    IN  IF n_q_alleles + n_r_alleles = 0 \/ n_q_alleles = 0 \/ n_r_alleles = 0
        THEN ZeroDivision
        ELSE [ status |-> "ok",
               n_shared_markers |-> Cardinality(markers),
               query_sample |-> FALSE,
               n_shared_alleles |-> n_shared_alleles,
               n_query_alleles |-> n_q_alleles,
               n_reference_alleles |-> n_r_alleles,
               tanabe_score |-> Tanabe(n_shared_alleles, n_q_alleles, n_r_alleles),
               masters_query_score |->
                   MastersQ(n_shared_alleles, n_q_alleles, n_r_alleles),
               masters_ref_score |->
                   MastersR(n_shared_alleles, n_q_alleles, n_r_alleles) ]

\* The default of three_allele_threshold / --mix_threshold.
MixThreshold == 3

\* mixing_check(alleles, three_allele_threshold).
MixingCheck(alleles, three_allele_threshold) ==
    LET past_th == Cardinality({ a \in DOMAIN alleles :
                                   Len(Split(alleles[a])) > 2 })
    IN  past_th > three_allele_threshold


\* ------------------------------------------------------------------------
\* Idle values of the variables a specification does not use.

CleanIdle ==
    /\ c_layout = "long" /\ c_cells = << >> /\ c_out = << >> /\ c_pc = "idle"

ScoreIdle ==
    /\ sq_a = << >> /\ sq_b = << >>
    /\ sq_use_amel = FALSE /\ sq_amel_col = "AMEL"
    /\ sq_ab = NotScored /\ sq_ba = NotScored /\ sq_aa = NotScored

IngressIdle ==
    /\ paths = << >> /\ sample_map = << >> /\ penta_fix = TRUE
    /\ path_i = 1 /\ samps_dicts = << >> /\ map_i = 1
    /\ allele_df = << >> /\ ing_pc = "idle"

RunIdle ==
    /\ samps = << >> /\ score_amel = FALSE /\ s_i = 1 /\ sa_i = 1
    /\ samp_comps = << >> /\ full_samp_out = << >> /\ written = {}
    /\ tables = << >> /\ summaries = << >> /\ summary_written = FALSE
    /\ pc = "idle" /\ err = NoValue

\* All sequences over S of length at most n.
SeqsUpTo(S, n) == UNION { [ 1..k -> S ] : k \in 0..n }

\* ------------------------------------------------------------------------
\* SpecClean: the canonicalisation of one marker value, in both layouts.

\* Raw allele labels as they occur in input tables.
RawLabels ==
    { << "9" >>, << "1", "0" >>, << "2", "0" >>, << "1", "0", ".", "3" >>,
      << "1", "0", ".", "0" >>, << "9", ".", "0" >>, << " ", "9" >> }

InitClean ==
    /\ c_layout \in { "wide", "long" }
    /\ \/ /\ c_layout = "wide"
          /\ c_cells \in SeqsUpTo(RawLabels \cup { NanStr }, MaxCells) \ { << >> }
       \/ /\ c_layout = "long"
          /\ \E labels \in SeqsUpTo(RawLabels, MaxCells) :
                c_cells = << IF labels = << >> THEN NanStr ELSE Join(labels) >>
    /\ c_out = << >>
    /\ c_pc = "raw"
    /\ ScoreIdle /\ IngressIdle /\ RunIdle

\* Lines 51-76: a wide row's Allele cells become the marker's allele string.
CleanWide ==
    /\ c_pc = "raw" /\ c_layout = "wide"
    /\ c_out' = WideMarkerValue(c_cells)
    /\ c_pc' = "done"
    /\ UNCHANGED << c_layout, c_cells, scoreVars, ingressVars, runVars >>

\* Lines 93-102: a long row's cell becomes the marker's allele string.
CleanLong ==
    /\ c_pc = "raw" /\ c_layout = "long"
    /\ c_out' = LongMarkerValue(c_cells[1])
    /\ c_pc' = "done"
    /\ UNCHANGED << c_layout, c_cells, scoreVars, ingressVars, runVars >>

NextClean == CleanWide \/ CleanLong

SpecClean == InitClean /\ [][NextClean]_vars

\* ------------------------------------------------------------------------
\* SpecScore: score_query on pairs of records.

\* Allele labels of scored records.
ScorePool == << << "9" >>, << "1", "0" >>, << "1", "1" >> >>

\* The members of ScorePool at the indices T, in the pool's order.
RECURSIVE PoolSeq(_, _)
PoolSeq(T, from) ==
    IF from > Len(ScorePool) THEN << >>
    ELSE IF from \in T THEN << ScorePool[from] >> \o PoolSeq(T, from + 1)
    ELSE PoolSeq(T, from + 1)

\* Allele strings of at most MaxAlleles distinct labels ("" included).
ScoreValues ==
    { Join(PoolSeq(T, 1)) :
        T \in { U \in SUBSET (1..Len(ScorePool)) : Cardinality(U) <= MaxAlleles } }

ScoreMarkers == { "M1", "AMEL" }

ScoreRecords == [ ScoreMarkers -> ScoreValues ]

InitScore ==
    /\ sq_a \in ScoreRecords
    /\ sq_b \in ScoreRecords
    /\ sq_use_amel \in BOOLEAN
    /\ sq_amel_col \in { "AMEL", "M1" }
    /\ sq_ab = NotScored /\ sq_ba = NotScored /\ sq_aa = NotScored
    /\ CleanIdle /\ IngressIdle /\ RunIdle

\* score_query(query=a, reference=b).
ScoreAB ==
    /\ sq_ab = NotScored
    /\ sq_ab' = ScoreQuery(sq_a, sq_b, sq_use_amel, sq_amel_col)
    /\ UNCHANGED << sq_a, sq_b, sq_use_amel, sq_amel_col, sq_ba, sq_aa,
                    cleanVars, ingressVars, runVars >>

\* score_query(query=b, reference=a).
ScoreBA ==
    /\ sq_ba = NotScored
    /\ sq_ba' = ScoreQuery(sq_b, sq_a, sq_use_amel, sq_amel_col)
    /\ UNCHANGED << sq_a, sq_b, sq_use_amel, sq_amel_col, sq_ab, sq_aa,
                    cleanVars, ingressVars, runVars >>

\* score_query(query=a, reference=an identical copy of a).
ScoreSelf ==
    /\ sq_aa = NotScored
    /\ sq_aa' = ScoreQuery(sq_a, sq_a, sq_use_amel, sq_amel_col)
    /\ UNCHANGED << sq_a, sq_b, sq_use_amel, sq_amel_col, sq_ab, sq_ba,
                    cleanVars, ingressVars, runVars >>

NextScore == ScoreAB \/ ScoreBA \/ ScoreSelf

SpecScore == InitScore /\ [][NextScore]_vars


\* ------------------------------------------------------------------------
\* Spec: the comparison loop of the command, from the cohort that str_ingress
\* returned (line 469) to the summary table (line 536).

\* The defaults of --tan_threshold, --mas_q_threshold, --mas_r_threshold.
TanThreshold == 80
MasQThreshold == 80
MasRThreshold == 80

\* The amel_col that score_query uses in the loop: the call of line 499 does
\* not pass one, so it is the default of score_query.
DefaultAmelCol == "AMEL"

\* Lines 478-490: the placeholder row of the query sample.
QueryRow(s, mixed, q) ==
    [ Sample |-> s, mixed |-> mixed, query_sample |-> TRUE,
      n_shared_markers |-> Nan, n_shared_alleles |-> Nan,
      n_query_alleles |-> Nan, n_reference_alleles |-> Nan,
      tanabe_score |-> Nan, masters_query_score |-> Nan,
      masters_ref_score |-> Nan, alleles |-> q ]

\* Lines 501-504: the row of one comparison. The row has no "mixed" value:
\* the table holds nan there.
CompRow(sa, scores, r) ==
    [ Sample |-> sa, mixed |-> Nan, query_sample |-> scores.query_sample,
      n_shared_markers |-> scores.n_shared_markers,
      n_shared_alleles |-> scores.n_shared_alleles,
      n_query_alleles |-> scores.n_query_alleles,
      n_reference_alleles |-> scores.n_reference_alleles,
      tanabe_score |-> scores.tanabe_score,
      masters_query_score |-> scores.masters_query_score,
      masters_ref_score |-> scores.masters_ref_score, alleles |-> r ]

\* The rows of a table that satisfy a test on the Tanabe score, in order.
RECURSIVE NanRows(_)
NanRows(t) ==
    IF t = << >> THEN << >>
    ELSE IF IsNan(Head(t).tanabe_score) THEN << Head(t) >> \o NanRows(Tail(t))
    ELSE NanRows(Tail(t))

RECURSIVE NumRows(_)
NumRows(t) ==
    IF t = << >> THEN << >>
    ELSE IF IsNan(Head(t).tanabe_score) THEN NumRows(Tail(t))
    ELSE << Head(t) >> \o NumRows(Tail(t))

\* Inserts a row into a table sorted by tanabe_score descending, after the
\* rows of an equal score.
RECURSIVE InsertDesc(_, _)
InsertDesc(t, row) ==
    IF t = << >> THEN << row >>
    ELSE IF Gt(row.tanabe_score, Head(t).tanabe_score) THEN << row >> \o t
    ELSE << Head(t) >> \o InsertDesc(Tail(t), row)

RECURSIVE SortDesc(_)
SortDesc(t) ==
    IF t = << >> THEN << >>
    ELSE InsertDesc(SortDesc(SubSeq(t, 1, Len(t) - 1)), t[Len(t)])

\* A variant of SortValues with the default na_position ("last").
SortValuesNanLast(t) == SortDesc(NumRows(t)) \o NanRows(t)

\* sort_values(by="tanabe_score", ascending=False, na_position="first"): the
\* nan rows first, then the others by descending score. For tables of at most
\* 16 rows the sort is an insertion sort, which keeps the order of equal rows.
SortValues(t) == NanRows(t) \o SortDesc(NumRows(t))

\* Series.round(decimals=2): the nearest hundredth, halves to even.
Round2(x) ==
    IF IsNan(x) THEN Nan
    ELSE LET num == x.n * 100
             fl == num \div x.d
             rem2 == 2 * (num - fl * x.d)
             h == IF rem2 > x.d \/ (rem2 = x.d /\ fl % 2 = 1) THEN fl + 1 ELSE fl
         IN  Frac(h, 100)

\* Sample + ": " + rounded score.
Hit(row, col) == [ Sample |-> row.Sample, score |-> Round2(row[col]) ]

\* The rows of a table whose score in col is >= threshold, formatted.
RECURSIVE Matches(_, _, _)
Matches(t, col, threshold) ==
    IF t = << >> THEN << >>
    ELSE IF Geq(Head(t)[col], Frac(threshold, 1))
         THEN << Hit(Head(t), col) >> \o Matches(Tail(t), col, threshold)
         ELSE Matches(Tail(t), col, threshold)

\* The value of make_summary when one of its .iloc[] raises.
IndexError == [ status |-> "IndexError" ]

\* make_summary(samp_df, alleles, thresholds, mixed, s_name). .iloc[1] and
\* .iloc[2] are the second and third row of the table.
MakeSummary(samp_df, alleles, tan_th, mas_q_th, mas_r_th, mixed, s_name) ==
    IF Len(samp_df) < 3 THEN IndexError
    ELSE [ status |-> "ok", Sample |-> s_name, mixed |-> mixed,
           top_hit |-> Hit(samp_df[2], "tanabe_score"),
           next_best |-> Hit(samp_df[3], "tanabe_score"),
           tanabe_matches |-> Matches(samp_df, "tanabe_score", tan_th),
           masters_query_matches |->
               Matches(samp_df, "masters_query_score", mas_q_th),
           masters_ref_matches |->
               Matches(samp_df, "masters_ref_score", mas_r_th),
           alleles |-> alleles ]

\* Sample keys of the cohorts of the model, in table order.
SampleNames == << "A", "B", "C", "D" >>

RunMarkers == { "M1", "AMEL" }

\* The allele strings of the cohorts: marker M1 and the amelogenin marker,
\* every value deduplicated, "" where the sample has no call.
RunM1Values ==
    { << >>, ScorePool[1], Join(<< ScorePool[1], ScorePool[2] >>),
      Join(<< ScorePool[2], ScorePool[3] >>) }

RunAmelValues == { << >>, ScorePool[1] }

RunRecords ==
    { [ m \in RunMarkers |-> IF m = "M1" THEN v ELSE a ] :
        v \in RunM1Values, a \in RunAmelValues }

Init ==
    /\ \E n \in 1..MaxSamples :
          \E recs \in [ 1..n -> RunRecords ] :
             samps = [ i \in 1..n |->
                         [ Sample |-> SampleNames[i], alleles |-> recs[i] ] ]
    /\ score_amel \in BOOLEAN
    /\ s_i = 1 /\ sa_i = 1
    /\ samp_comps = << >> /\ full_samp_out = << >>
    /\ written = {} /\ tables = << >>
    /\ summaries = << >> /\ summary_written = FALSE
    /\ pc = "loop" /\ err = NoValue
    /\ CleanIdle /\ ScoreIdle /\ IngressIdle

\* Lines 473-493: the next query sample; its mixing flag and placeholder row.
BeginSample ==
    /\ pc = "loop" /\ s_i <= Len(samps)
    /\ LET q == samps[s_i].alleles
           mixed == MixingCheck(q, MixThreshold)
       IN  samp_comps' = << QueryRow(samps[s_i].Sample, mixed, q) >>
    /\ sa_i' = 1
    /\ pc' = "score"
    /\ UNCHANGED << samps, score_amel, s_i, full_samp_out, written, tables,
                    summaries, summary_written, err,
                    cleanVars, scoreVars, ingressVars >>

\* Lines 495-496: the query sample is not compared to itself.
SkipSelf ==
    /\ pc = "score" /\ sa_i <= Len(samps) /\ sa_i = s_i
    /\ sa_i' = sa_i + 1
    /\ UNCHANGED << samps, score_amel, s_i, samp_comps, full_samp_out, written,
                    tables, summaries, summary_written, pc, err,
                    cleanVars, scoreVars, ingressVars >>

\* Lines 497-506: one comparison, its row appended.
ScorePair ==
    /\ pc = "score" /\ sa_i <= Len(samps) /\ sa_i # s_i
    /\ LET scores == ScoreQuery(samps[s_i].alleles, samps[sa_i].alleles,
                                score_amel, DefaultAmelCol)
       IN  /\ scores.status = "ok"
           /\ samp_comps' = Append(samp_comps,
                  CompRow(samps[sa_i].Sample, scores, samps[sa_i].alleles))
    /\ sa_i' = sa_i + 1
    /\ UNCHANGED << samps, score_amel, s_i, full_samp_out, written, tables,
                    summaries, summary_written, pc, err,
                    cleanVars, scoreVars, ingressVars >>

\* Line 499: score_query raises; nothing catches it and the run ends.
ScorePairRaises ==
    /\ pc = "score" /\ sa_i <= Len(samps) /\ sa_i # s_i
    /\ LET scores == ScoreQuery(samps[s_i].alleles, samps[sa_i].alleles,
                                score_amel, DefaultAmelCol)
       IN  /\ scores.status # "ok"
           /\ err' = scores.status
    /\ pc' = "aborted"
    /\ UNCHANGED << samps, score_amel, s_i, sa_i, samp_comps, full_samp_out,
                    written, tables, summaries, summary_written,
                    cleanVars, scoreVars, ingressVars >>

\* Lines 508-512: the table of the query sample, sorted.
SortTable ==
    /\ pc = "score" /\ sa_i > Len(samps)
    /\ full_samp_out' = SortValues(samp_comps)
    /\ pc' = "write"
    /\ UNCHANGED << samps, score_amel, s_i, sa_i, samp_comps, written, tables,
                    summaries, summary_written, err,
                    cleanVars, scoreVars, ingressVars >>

\* Lines 514-517: the table of the query sample is written.
WriteSample ==
    /\ pc = "write"
    /\ written' = written \cup { samps[s_i].Sample }
    /\ tables' = Append(tables, full_samp_out)
    /\ pc' = "summary"
    /\ UNCHANGED << samps, score_amel, s_i, sa_i, samp_comps, full_samp_out,
                    summaries, summary_written, err,
                    cleanVars, scoreVars, ingressVars >>

\* Lines 519-530: the summary row of the query sample.
Summarize ==
    /\ pc = "summary"
    /\ LET summ == MakeSummary(full_samp_out, samps[s_i].alleles, TanThreshold,
                               MasQThreshold, MasRThreshold,
                               MixingCheck(samps[s_i].alleles, MixThreshold),
                               samps[s_i].Sample)
       IN  /\ summ.status = "ok"
           /\ summaries' = Append(summaries, summ)
    /\ s_i' = s_i + 1
    /\ pc' = "loop"
    /\ UNCHANGED << samps, score_amel, sa_i, samp_comps, full_samp_out, written,
                    tables, summary_written, err,
                    cleanVars, scoreVars, ingressVars >>

\* Line 520: make_summary raises; nothing catches it and the run ends.
SummarizeRaises ==
    /\ pc = "summary"
    /\ LET summ == MakeSummary(full_samp_out, samps[s_i].alleles, TanThreshold,
                               MasQThreshold, MasRThreshold,
                               MixingCheck(samps[s_i].alleles, MixThreshold),
                               samps[s_i].Sample)
       IN  /\ summ.status # "ok"
           /\ err' = summ.status
    /\ pc' = "aborted"
    /\ UNCHANGED << samps, score_amel, s_i, sa_i, samp_comps, full_samp_out,
                    written, tables, summaries, summary_written,
                    cleanVars, scoreVars, ingressVars >>

\* Lines 532-536: the summary table is written.
WriteSummary ==
    /\ pc = "loop" /\ s_i > Len(samps)
    /\ summary_written' = TRUE
    /\ pc' = "done"
    /\ UNCHANGED << samps, score_amel, s_i, sa_i, samp_comps, full_samp_out,
                    written, tables, summaries, err,
                    cleanVars, scoreVars, ingressVars >>

Next ==
    \/ BeginSample \/ SkipSelf \/ ScorePair \/ ScorePairRaises \/ SortTable
    \/ WriteSample \/ Summarize \/ SummarizeRaises \/ WriteSummary

Spec == Init /\ [][Next]_vars


\* ------------------------------------------------------------------------
\* SpecIngress: str_ingress, from the parsed tables to the returned cohort.
\* A wide table is a sequence of rows [Sample, Marker, cells]; a long table
\* is a sequence of rows [Sample, cols], cols a mapping of marker to cell.

NameRank(n) == CHOOSE i \in 1..Len(SampleNames) : SampleNames[i] = n

\* The keys of grouped.groups: the samples of a table in ascending order.
RECURSIVE SortedNames(_)
SortedNames(S) ==
    IF S = {} THEN << >>
    ELSE LET m == CHOOSE x \in S : \A y \in S : NameRank(x) <= NameRank(y)
         IN  << m >> \o SortedNames(S \ {m})

\* samp_df.set_index(marker_col).to_dict()["Alleles"]: for each marker of
\* the sample, the Alleles of its last row.
WideDict(rows, samp) ==
    LET idx == { i \in 1..Len(rows) : rows[i].Sample = samp }
        last(k) == CHOOSE i \in idx :
                      /\ rows[i].Marker = k
                      /\ \A j \in idx : rows[j].Marker = k => j <= i
    IN  [ k \in { rows[i].Marker : i \in idx } |->
            WideAlleles([ c \in 1..Len(rows[last(k)].cells) |->
                            StripCell(rows[last(k)].cells[c]) ]) ]

\* samps_dict[new] = samps_dict.pop(old).
PopInto(d, old, new) ==
    [ k \in (DOMAIN d \ { old }) \cup { new } |->
        IF k = new THEN d[old] ELSE d[k] ]

\* Lines 80-83 and 85-88: one Penta marker renamed from a common spelling.
PentaRename(d, spaced, underscored, canonical) ==
    IF spaced \in DOMAIN d THEN PopInto(d, spaced, canonical)
    ELSE IF underscored \in DOMAIN d THEN PopInto(d, underscored, canonical)
    ELSE d

\* Lines 78-88.
PentaFix(d, fix) ==
    IF fix
    THEN PentaRename(PentaRename(d, "Penta D", "Penta_D", "PentaD"),
                     "Penta E", "Penta_E", "PentaE")
    ELSE d

\* Lines 66-90: the record of one sample of a wide table.
WideRecord(rows, samp, fix) ==
    LET d == WideDict(rows, samp)
        dedup == [ k \in DOMAIN d |-> WideDedup(d[k]) ]
    IN  [ Sample |-> samp, alleles |-> PentaFix(dedup, fix) ]

\* Lines 64-90: the records of a wide table, one per sample.
WideRecords(rows, fix) ==
    LET names == SortedNames({ rows[i].Sample : i \in 1..Len(rows) })
    IN  [ i \in 1..Len(names) |-> WideRecord(rows, names[i], fix) ]

\* Lines 93-104: the records of a long table, one per row.
LongRecords(rows) ==
    [ i \in 1..Len(rows) |->
        [ Sample |-> rows[i].Sample,
          alleles |-> [ k \in DOMAIN rows[i].cols |->
                          CleanElement(LongCell(rows[i].cols[k])) ] ] ]

\* Lines 111-113: the second column of the rows of the rename table whose
\* first column is id, as Series.to_string prints it: one value per line.
RECURSIVE MapToString(_, _)
MapToString(map, id) ==
    IF map = << >> THEN ""
    ELSE LET rest == MapToString(Tail(map), id)
         IN  IF Head(map)[1] # id THEN rest
             ELSE IF rest = "" THEN Head(map)[2]
             ELSE Head(map)[2] \o "\n" \o rest

\* Line 111: every record whose Sample is id gets the new name.
RenameRows(df, id, new) ==
    [ i \in 1..Len(df) |->
        IF df[i].Sample = id THEN [ df[i] EXCEPT !.Sample = new ] ELSE df[i] ]

\* A variant of HasDuplicates for set_index without verify_integrity.
NoIntegrityCheck(df) == FALSE

\* verify_integrity of set_index: two rows with one Sample value.
HasDuplicates(df) ==
    \E i, j \in 1..Len(df) : i # j /\ df[i].Sample = df[j].Sample

\* Lines 106 and 119: every record has every marker of the table, "" where
\* it has no value.
FillMissing(df) ==
    LET cols == UNION { DOMAIN df[i].alleles : i \in 1..Len(df) }
    IN  [ i \in 1..Len(df) |->
            [ df[i] EXCEPT !.alleles =
                [ k \in cols |-> IF k \in DOMAIN df[i].alleles
                                 THEN df[i].alleles[k] ELSE << >> ] ] ]

\* Sample names of the input tables, and of the rename table.
FileNames == { "A", "B" }
MapNames == { "A", "B", "C" }

MapRows == { p \in MapNames \X MapNames : p[1] # p[2] }

\* Allele cells whose labels the canonicalisation leaves as they are.
PlainCells == { << << "9" >> >>, << << "1", "0", ".", "3" >>, << "9" >> >> }

PentaMarkers ==
    { "Penta D", "Penta_D", "PentaD", "Penta E", "Penta_E", "PentaE" }

\* Tables of one marker M1, of either layout.
PlainTables ==
    UNION { { [ layout |-> "wide",
                rows |-> [ i \in 1..Len(names) |->
                    [ Sample |-> names[i], Marker |-> "M1",
                      cells |-> << << "9" >> >> ] ] ],
              [ layout |-> "long",
                rows |-> [ i \in 1..Len(names) |->
                    [ Sample |-> names[i],
                      cols |-> [ k \in { "M1" } |-> << "9" >> ] ] ] ] } :
            names \in SeqsUpTo(FileNames, MaxRows) \ { << >> } }

\* Tables of one sample with Penta markers, of either layout.
PentaWideTables ==
    { [ layout |-> "wide",
        rows |-> [ i \in 1..Len(ms) |->
                     [ Sample |-> "A", Marker |-> ms[i][1], cells |-> ms[i][2] ] ] ] :
        ms \in SeqsUpTo((PentaMarkers \cup { "M1" }) \X PlainCells, MaxRows)
                 \ { << >> } }

PentaLongTables ==
    UNION { { [ layout |-> "long",
                rows |-> << [ Sample |-> "A", cols |-> cols ] >> ] :
              cols \in [ hdr -> { Join(c) : c \in PlainCells } ] } :
            hdr \in { h \in SUBSET (PentaMarkers \cup { "M1" }) :
                        Cardinality(h) \in 1..MaxCols } }

InitIngress ==
    /\ \/ \* several tables, at most one rename
          /\ paths \in SeqsUpTo(PlainTables, MaxTables) \ { << >> }
          /\ sample_map \in SeqsUpTo(MapRows, 1)
          /\ penta_fix = TRUE
       \/ \* one table, a rename table of several rows
          /\ \E t \in PlainTables : paths = << t >>
          /\ sample_map \in SeqsUpTo(MapRows, MaxMapRows)
          /\ penta_fix = TRUE
       \/ \* one table with Penta markers
          /\ \E t \in PentaWideTables \cup PentaLongTables : paths = << t >>
          /\ sample_map = << >>
          /\ penta_fix \in BOOLEAN
    /\ path_i = 1 /\ samps_dicts = << >> /\ map_i = 1
    /\ allele_df = << >> /\ ing_pc = "read"
    /\ CleanIdle /\ ScoreIdle /\ RunIdle

\* Lines 51-90: the next table is in wide layout.
ReadWide ==
    /\ ing_pc = "read" /\ path_i <= Len(paths)
    /\ paths[path_i].layout = "wide"
    /\ samps_dicts' = samps_dicts \o WideRecords(paths[path_i].rows, penta_fix)
    /\ path_i' = path_i + 1
    /\ UNCHANGED << paths, sample_map, penta_fix, map_i, allele_df, ing_pc,
                    cleanVars, scoreVars, runVars >>

\* Lines 92-104: the next table is in long layout.
ReadLong ==
    /\ ing_pc = "read" /\ path_i <= Len(paths)
    /\ paths[path_i].layout = "long"
    /\ samps_dicts' = samps_dicts \o LongRecords(paths[path_i].rows)
    /\ path_i' = path_i + 1
    /\ UNCHANGED << paths, sample_map, penta_fix, map_i, allele_df, ing_pc,
                    cleanVars, scoreVars, runVars >>

\* Line 106: the table of all records.
BuildFrame ==
    /\ ing_pc = "read" /\ path_i > Len(paths)
    /\ allele_df' = samps_dicts
    /\ ing_pc' = "rename"
    /\ UNCHANGED << paths, sample_map, penta_fix, path_i, samps_dicts, map_i,
                    cleanVars, scoreVars, runVars >>

\* Lines 110-113: one row of the rename table is applied.
RenameStep ==
    /\ ing_pc = "rename" /\ map_i <= Len(sample_map)
    /\ LET id == sample_map[map_i][1]
       IN  allele_df' = RenameRows(allele_df, id, MapToString(sample_map, id))
    /\ map_i' = map_i + 1
    /\ UNCHANGED << paths, sample_map, penta_fix, path_i, samps_dicts, ing_pc,
                    cleanVars, scoreVars, runVars >>

\* Lines 116-121: the Sample column becomes the index; the cohort is returned.
SetIndex ==
    /\ ing_pc = "rename" /\ map_i > Len(sample_map)
    /\ ~HasDuplicates(allele_df)
    /\ allele_df' = FillMissing(allele_df)
    /\ ing_pc' = "returned"
    /\ UNCHANGED << paths, sample_map, penta_fix, path_i, samps_dicts, map_i,
                    cleanVars, scoreVars, runVars >>

\* Line 116: set_index raises on a duplicate Sample.
SetIndexRaises ==
    /\ ing_pc = "rename" /\ map_i > Len(sample_map)
    /\ HasDuplicates(allele_df)
    /\ ing_pc' = "raised"
    /\ UNCHANGED << paths, sample_map, penta_fix, path_i, samps_dicts, map_i,
                    allele_df, cleanVars, scoreVars, runVars >>

NextIngress ==
    \/ ReadWide \/ ReadLong \/ BuildFrame \/ RenameStep \/ SetIndex
    \/ SetIndexRaises

SpecIngress == InitIngress /\ [][NextIngress]_vars


\* ========================================================================
\* Properties.

\* ---- SpecScore

ScoredBoth == sq_ab.status = "ok" /\ sq_ba.status = "ok"

\* C1: for every pair of records on which score_query is defined in both
\* directions, the Tanabe score, the number of shared markers and the number
\* of shared alleles are the same in both directions, and the Masters query
\* score of (a, b) is the Masters reference score of (b, a).
C1_ScoreSymmetry ==
    ScoredBoth =>
        /\ sq_ab.tanabe_score = sq_ba.tanabe_score
        /\ sq_ab.masters_query_score = sq_ba.masters_ref_score
        /\ sq_ab.masters_ref_score = sq_ba.masters_query_score
        /\ sq_ab.n_shared_markers = sq_ba.n_shared_markers
        /\ sq_ab.n_shared_alleles = sq_ba.n_shared_alleles

\* A pair scored in both directions whose two Masters scores differ.
C1_Witness ==
    /\ ScoredBoth
    /\ sq_a # sq_b
    /\ sq_ab.masters_query_score # sq_ab.masters_ref_score
    /\ sq_ab.n_shared_alleles > 0

\* The markers of a record with a non-empty allele string.
NonEmptyMarkers(rec) == { m \in DOMAIN rec : rec[m] # << >> }

\* The non-empty markers of a record that count for scoring.
CountedMarkers(rec) ==
    { m \in NonEmptyMarkers(rec) : sq_use_amel \/ m # sq_amel_col }

SelfScoreIsFull ==
    /\ sq_aa.tanabe_score = Hundred
    /\ sq_aa.masters_query_score = Hundred
    /\ sq_aa.masters_ref_score = Hundred

\* C2 as stated, on the records for which score_query returns: a record
\* scored against an identical copy of itself has all three scores 100 and as
\* many shared markers as it has markers with a non-empty allele string.
C2_SelfScoreAsStated ==
    sq_aa.status = "ok" =>
        /\ SelfScoreIsFull
        /\ sq_aa.n_shared_markers = Cardinality(NonEmptyMarkers(sq_a))

\* C2 amended: a record with at least one non-empty marker that counts for
\* scoring (the amel_col marker does not count when use_amel is false),
\* scored against an identical copy of itself, has all three scores 100 and
\* as many shared markers as it has non-empty markers that count; and
\* score_query returns these values whenever it returns.
C2_SelfScore ==
    /\ (sq_aa # NotScored /\ CountedMarkers(sq_a) # {}) => sq_aa.status = "ok"
    /\ sq_aa.status = "ok" =>
          /\ SelfScoreIsFull
          /\ sq_aa.n_shared_markers = Cardinality(CountedMarkers(sq_a))

\* A record with a called amelogenin marker that is left out of its score.
C2_Witness ==
    /\ sq_aa.status = "ok"
    /\ sq_use_amel = FALSE
    /\ sq_amel_col \in NonEmptyMarkers(sq_a)
    /\ sq_aa.n_shared_markers = 1
    /\ sq_aa.n_shared_alleles = 2

\* ---- Spec

\* C3: no run ends in an arithmetic fault of score_query: a pair without
\* alleles over its scored markers gets a row and the loop goes on.
C3_NoArithmeticFault == pc = "aborted" => err # "ZeroDivisionError"

RankedTable(t, k) ==
    LET n == Len(samps)
        s == samps[k].Sample
    IN  /\ Len(t) = n
        /\ t[1].query_sample = TRUE
        /\ t[1].Sample = s
        /\ IsNan(t[1].tanabe_score)
        /\ IsNan(t[1].masters_query_score)
        /\ IsNan(t[1].masters_ref_score)
        /\ IsNan(t[1].n_shared_markers)
        /\ IsNan(t[1].n_shared_alleles)
        /\ IsNan(t[1].n_query_alleles)
        /\ IsNan(t[1].n_reference_alleles)
        /\ \A i \in 2..n : t[i].query_sample = FALSE
        /\ { t[i].Sample : i \in 2..n } = { samps[j].Sample : j \in 1..n } \ { s }
        /\ \A i \in 2..n, j \in 2..n :
              i < j => Geq(t[i].tanabe_score, t[j].tanabe_score)

\* C4: the ranked table of every sample of a cohort of n samples has n rows;
\* its first row is the placeholder of the sample (query_sample true, all
\* scores nan), the other n-1 rows are one per other sample, in
\* non-increasing order of tanabe_score, so the second and third row hold
\* the highest and second-highest Tanabe score.
C4_RankedTables ==
    /\ pc \in { "write", "summary" } => RankedTable(full_samp_out, s_i)
    /\ \A k \in 1..Len(tables) : RankedTable(tables[k], k)

\* A table of three or more rows that the sort reordered.
C4_Witness ==
    /\ pc = "summary"
    /\ Len(full_samp_out) >= 3
    /\ full_samp_out # samp_comps
    /\ Gt(full_samp_out[2].tanabe_score, full_samp_out[3].tanabe_score)

\* C5: for a cohort of fewer than 3 samples make_summary does not crash.
C5_SmallCohortSummary == Len(samps) < 3 => err # "IndexError"

\* C10: a run that aborts with an error has written no comparison table and
\* no summary table.
C10_AllOrNothing == pc = "aborted" => (written = {} /\ ~summary_written)

\* ---- SpecClean

\* The label of the data model: trimmed, a trailing ".0" removed.
Canonical(label) ==
    LET t == Strip(label)
    IN  IF Len(t) >= 2 /\ SubSeq(t, Len(t) - 1, Len(t)) = << ".", "0" >>
        THEN SubSeq(t, 1, Len(t) - 2)
        ELSE t

\* The raw labels of the marker: the called cells of a wide row, the
\* comma-separated fields of a long cell.
RawLabelsOf(layout, cells) ==
    IF layout = "wide" THEN Range(cells) \ { NanStr }
    ELSE IF cells[1] = NanStr THEN {}
    ELSE Range(Split(cells[1]))

\* The labels of an allele string; the empty string has none.
LabelsOf(v) == IF v = << >> THEN {} ELSE Range(Split(v))

\* C7: in both layouts the labels of the canonical AlleleSet are the raw
\* labels, each trimmed and with a trailing ".0" removed and otherwise
\* unchanged; the AlleleSet has no duplicate label and no label ending in
\* ".0".
C7_CanonicalLabels ==
    c_pc = "done" =>
        /\ LabelsOf(c_out) = { Canonical(l) : l \in RawLabelsOf(c_layout, c_cells) }
        /\ Len(Split(c_out)) = Cardinality(Range(Split(c_out)))
        /\ \A l \in LabelsOf(c_out) : Canonical(l) = l

\* ---- SpecIngress

AllDistinct(df) ==
    \A i, j \in 1..Len(df) : i # j => df[i].Sample # df[j].Sample

\* C6: str_ingress returns only cohorts with pairwise distinct Sample keys;
\* when two records have the same key after the rename table is applied, it
\* raises, and the records are neither merged nor returned.
C6_UniqueSampleKeys ==
    /\ ing_pc = "returned" => AllDistinct(allele_df)
    /\ (ing_pc \in { "returned", "raised" } /\ ~AllDistinct(allele_df)) =>
          (ing_pc = "raised" /\ Len(allele_df) = Len(samps_dicts))
    /\ ing_pc = "returned" => Len(allele_df) = Len(samps_dicts)

\* Ingestion raised on a duplicate key that the rename table created.
C6_Witness ==
    /\ ing_pc = "raised"
    /\ AllDistinct(samps_dicts)
    /\ ~AllDistinct(allele_df)

\* The spellings of the two Penta markers, the canonical one first.
PentaSpellings ==
    { << "PentaD", "Penta D", "Penta_D" >>, << "PentaE", "Penta E", "Penta_E" >> }

\* The marker keys of a table's first sample, and their canonical values.
InputKeys(t) ==
    IF t.layout = "wide"
    THEN { t.rows[i].Marker : i \in 1..Len(t.rows) }
    ELSE DOMAIN t.rows[1].cols

InputValue(t, k) ==
    IF t.layout = "wide"
    THEN WideDedup(WideDict(t.rows, t.rows[1].Sample)[k])
    ELSE CleanElement(LongCell(t.rows[1].cols[k]))

\* One table of one sample, no rename table: the cohort is one record.
OneRecord ==
    /\ Len(paths) = 1 /\ sample_map = << >> /\ Len(allele_df) = 1
    /\ \A i \in 1..Len(paths[1].rows) :
          paths[1].rows[i].Sample = paths[1].rows[1].Sample

\* C8: with penta_fix, a record read from a table of either layout whose
\* Penta D (Penta E) marker is keyed by one of its three spellings has the
\* single key PentaD (PentaE) with that marker's AlleleSet; without
\* penta_fix it keeps the key of the table.
C8_PentaFolded ==
    (ing_pc = "returned" /\ OneRecord) =>
        \A sp \in PentaSpellings : \A k \in Range(sp) :
            (InputKeys(paths[1]) \cap Range(sp) = { k }) =>
                LET rec == allele_df[1].alleles
                    key == IF penta_fix THEN sp[1] ELSE k
                IN  /\ DOMAIN rec \cap Range(sp) = { key }
                    /\ rec[key] = InputValue(paths[1], k)

\* The rename table has no two rows with the same old name.
DistinctOld ==
    \A i, j \in 1..Len(sample_map) :
        i # j => sample_map[i][1] # sample_map[j][1]

\* The name the rename table gives to an original key.
Renamed(key) ==
    IF \E i \in 1..Len(sample_map) : sample_map[i][1] = key
    THEN sample_map[CHOOSE i \in 1..Len(sample_map) : sample_map[i][1] = key][2]
    ELSE key

\* C9: the rename table is applied once to each record: a record whose
\* original key is the old name of a row ends with the new name of that row,
\* also when that name is the old name of another row, and every other
\* record keeps its key.
C9_RenamedOnce ==
    (ing_pc \in { "returned", "raised" } /\ DistinctOld) =>
        \A i \in 1..Len(allele_df) :
            allele_df[i].Sample = Renamed(samps_dicts[i].Sample)

=============================================================================
